---- MODULE Spec2Model ----
(***************************************************************************)
(* Model of mohae/benchutil (src/benchutil.go): the Benches data model,    *)
(* the column width computation (setLength), the cell formatters and the  *)
(* three renderers StringBench.Out, CSVBench.Out (csvOut) and MDBench.Out. *)
(*                                                                         *)
(* Go strings are TLA+ strings (Len and \o are the byte length and the     *)
(* concatenation).  A renderer is used as the README describes: it is      *)
(* constructed, records are appended and options are set, then Out() is    *)
(* called one or more times.                                               *)
(*                                                                         *)
(* Every value of the record pool keeps Ops * Iterations far inside the    *)
(* int64 range, so the products below never wrap.                          *)
(***************************************************************************)
EXTENDS Integers, Sequences, FiniteSets, TLC

\* Bounds of the exploration.
MaxBenches == 3     \* records appended to one renderer
MaxOuts == 2        \* calls of Out() on one renderer
MaxFail == 1        \* writes a failing sink accepts before it starts to reject

\* const defaultPadding = 2
defaultPadding == 2

\* SectionHeaderHash set by NewMDBench
SectionHeaderHash == "####"

VARIABLES
    kind,               \* which constructor built the renderer: "text", "csv", "md"
    b,                  \* the embedded Benches struct
    GroupAsSectionName, \* MDBench.GroupAsSectionName
    written,            \* the writes the sink accepted during the most recent Out()
    attempted,          \* number of writes to the sink attempted by the most recent Out()
    sinkRejected,       \* the sink rejected a write during the most recent Out()
    result,             \* how the most recent Out() ended
    lengths,            \* the width set each Out() so far rendered with, in call order
    outs                \* number of calls of Out() so far

vars == <<kind, b, GroupAsSectionName, written, attempted, sinkRejected, result, lengths,
          outs>>

-----------------------------------------------------------------------------
(* Strings and numbers *)

Max(x, y) == IF x > y THEN x ELSE y
Min(x, y) == IF x < y THEN x ELSE y

\* make([]byte, n) filled with one character
RECURSIVE Repeat(_, _)
Repeat(c, n) == IF n <= 0 THEN "" ELSE c \o Repeat(c, n - 1)

DigitChars == <<"0", "1", "2", "3", "4", "5", "6", "7", "8", "9">>

\* strconv.Itoa and fmt.Sprintf("%d", n)
RECURSIVE Itoa(_)
Itoa(n) ==
    IF n < 0 THEN "-" \o Itoa(0 - n)
    ELSE IF n < 10 THEN DigitChars[n + 1]
    ELSE Itoa(n \div 10) \o DigitChars[(n % 10) + 1]

\* Go's integer division truncates toward zero (y # 0)
Quo(x, y) ==
    IF (x >= 0) = (y > 0) THEN (IF x >= 0 THEN x ELSE 0 - x) \div (IF y >= 0 THEN y ELSE 0 - y)
    ELSE 0 - ((IF x >= 0 THEN x ELSE 0 - x) \div (IF y >= 0 THEN y ELSE 0 - y))

RECURSIVE Concat(_)
Concat(ss) == IF ss = <<>> THEN "" ELSE Head(ss) \o Concat(Tail(ss))

\* strings.TrimSpace restricted to blanks: what a reader sees in a padded cell
RECURSIVE TrimLeft(_)
TrimLeft(s) ==
    IF Len(s) > 0 /\ SubSeq(s, 1, 1) = " " THEN TrimLeft(SubSeq(s, 2, Len(s))) ELSE s

RECURSIVE TrimRight(_)
TrimRight(s) ==
    IF Len(s) > 0 /\ SubSeq(s, Len(s), Len(s)) = " "
    THEN TrimRight(SubSeq(s, 1, Len(s) - 1)) ELSE s

Trim(s) == TrimLeft(TrimRight(s))

-----------------------------------------------------------------------------
(* Data model *)

\* type Bench struct (with the embedded Result)
Bench(g, sg, n, d, nt, it, ops, ns, by, al) ==
    [Group |-> g, SubGroup |-> sg, Name |-> n, Desc |-> d, Note |-> nt,
     Iterations |-> it, Ops |-> ops, NsOp |-> ns, BytesOp |-> by, AllocsOp |-> al]

\* The records a caller appends.  The first two are the scenario of the
\* specification; the last is Bench{}, the zero value TestAppend appends.
BenchPool ==
    { Bench("g1", "", "A", "", "", 1, 1, 100, 10, 1),
      Bench("g2", "", "B", "", "n2", 1, 2, 200, 20, 2),
      Bench("g1", "s1", "C", "d", "n1", 4, 1000, 500, 0, 3),
      Bench("", "", "", "", "", 0, 0, 0, 0, 0) }

\* Argument lists of Append(benches ...Bench)
AppendArgs == {<<x>> : x \in BenchPool} \cup {<<x, y>> : x \in BenchPool, y \in BenchPool}

\* func newHeader() header
newHeader ==
    [Group |-> "Group", SubGroup |-> "Sub-Group", Name |-> "Name", Desc |-> "Desc",
     Ops |-> "Ops", NsOp |-> "ns/Op", BytesOp |-> "B/Op", AllocsOp |-> "Allocs/Op",
     Note |-> "Note"]

\* type length struct, zero value
zeroLength ==
    [Group |-> 0, SubGroup |-> 0, Name |-> 0, Desc |-> 0, Ops |-> 0, NsOp |-> 0,
     BytesOp |-> 0, AllocsOp |-> 0, Note |-> 0]

\* Benches{header: newHeader(), columnPadding: defaultPadding}
newBenches ==
    [Name |-> "", Desc |-> "", Note |-> "", Benchmarks |-> <<>>,
     header |-> newHeader, columnPadding |-> defaultPadding,
     includeOpsColumnDesc |-> FALSE, includeSystemInfo |-> FALSE,
     includeDetailedSystemInfo |-> FALSE, sectionPerGroup |-> FALSE,
     sectionHeaders |-> FALSE, length |-> zeroLength]

-----------------------------------------------------------------------------
(* Column widths *)

\* the loop of setLength over b.Benchmarks, from record i on
RECURSIVE scanLengths(_, _, _)
scanLengths(l, benches, i) ==
    IF i > Len(benches) THEN l
    ELSE LET v == benches[i] IN
         scanLengths(
            [Group |-> Max(l.Group, Len(v.Group)),
             SubGroup |-> Max(l.SubGroup, Len(v.SubGroup)),
             Name |-> Max(l.Name, Len(v.Name)),
             Desc |-> Max(l.Desc, Len(v.Desc)),
             Note |-> Max(l.Note, Len(v.Note)),
             Ops |-> Max(l.Ops, Len(Itoa(v.Ops * v.Iterations))),
             NsOp |-> Max(l.NsOp, Len(Itoa(v.NsOp))),
             BytesOp |-> Max(l.BytesOp, Len(Itoa(v.BytesOp))),
             AllocsOp |-> Max(l.AllocsOp, Len(Itoa(v.AllocsOp)))],
            benches, i + 1)

\* the descriptor widths added when includeOpsColumnDesc is set
addOpsColumnDesc(bb, l) ==
    IF bb.includeOpsColumnDesc
    THEN [l EXCEPT !.NsOp = @ + 6, !.BytesOp = @ + 9, !.AllocsOp = @ + 10]
    ELSE l

\* func (b *Benches) setLength(): the receiver with its length updated
setLength(bb) ==
    LET l == addOpsColumnDesc(bb, scanLengths(bb.length, bb.Benchmarks, 1))
        h == bb.header
        text(w, s) == IF w > 0 /\ Len(s) > w THEN Len(s) ELSE w
        num(w, s) == IF Len(s) > w THEN Len(s) ELSE w
    IN [bb EXCEPT !.length =
            [Group |-> text(l.Group, h.Group),
             SubGroup |-> text(l.SubGroup, h.SubGroup),
             Name |-> text(l.Name, h.Name),
             Desc |-> text(l.Desc, h.Desc),
             Note |-> text(l.Note, h.Note),
             Ops |-> num(l.Ops, h.Ops),
             NsOp |-> num(l.NsOp, h.NsOp),
             BytesOp |-> num(l.BytesOp, h.BytesOp),
             AllocsOp |-> num(l.AllocsOp, h.AllocsOp)]]

-----------------------------------------------------------------------------
(* Cells *)

\* perOpsString without the division by the iterations
perOpsString_undivided(v, it) == IF v = 0 THEN "0" ELSE Itoa(v)

\* func (b *Benches) perOpsString(v int64, it int) string
perOpsString(v, it) == IF v = 0 THEN "0" ELSE Itoa(Quo(v, it))

\* OpsString without the multiplication by the iterations
OpsString_unmultiplied(bb, v) ==
    IF bb.includeOpsColumnDesc THEN Itoa(v.Ops) \o " ops" ELSE Itoa(v.Ops)

\* func (b *Benches) OpsString(v Bench) string
OpsString(bb, v) ==
    IF bb.includeOpsColumnDesc THEN Itoa(v.Ops * v.Iterations) \o " ops"
    ELSE Itoa(v.Ops * v.Iterations)

\* func (b *Benches) NsOpString(v Bench) string
NsOpString(bb, v) ==
    IF bb.includeOpsColumnDesc THEN perOpsString(v.NsOp, v.Iterations) \o " ns/op"
    ELSE perOpsString(v.NsOp, v.Iterations)

\* func (b *Benches) BytesOpString(v Bench) string
BytesOpString(bb, v) ==
    IF bb.includeOpsColumnDesc THEN perOpsString(v.BytesOp, v.Iterations) \o " bytes/op"
    ELSE perOpsString(v.BytesOp, v.Iterations)

\* func (b *Benches) AllocsOpString(v Bench) string
AllocsOpString(bb, v) ==
    IF bb.includeOpsColumnDesc THEN perOpsString(v.AllocsOp, v.Iterations) \o " allocs/op"
    ELSE perOpsString(v.AllocsOp, v.Iterations)

\* columnR returns a right justified string of width w
columnR(bb, w, s) ==
    LET pad == IF w - Len(s) < 0 THEN 0 ELSE w - Len(s)
    IN Repeat(" ", pad) \o s \o Repeat(" ", bb.columnPadding)

\* columnL returns a left justified string of width w
columnL(bb, w, s) ==
    LET pad == IF w + bb.columnPadding - Len(s) < 0 THEN bb.columnPadding
               ELSE w + bb.columnPadding - Len(s)
    IN s \o Repeat(" ", pad)

\* resultCSV returns the benchmark results as []string
resultCSV(bb, i) ==
    <<OpsString(bb, bb.Benchmarks[i]), NsOpString(bb, bb.Benchmarks[i]),
      BytesOpString(bb, bb.Benchmarks[i]), AllocsOpString(bb, bb.Benchmarks[i])>>

\* csv returns the info of the benchmark at index i as []string
csv(bb, i) ==
    (IF bb.length.Group > 0 THEN <<bb.Benchmarks[i].Group>> ELSE <<>>)
    \o (IF bb.length.SubGroup > 0 THEN <<bb.Benchmarks[i].SubGroup>> ELSE <<>>)
    \o (IF bb.length.Name > 0 THEN <<bb.Benchmarks[i].Name>> ELSE <<>>)
    \o (IF bb.length.Desc > 0 THEN <<bb.Benchmarks[i].Desc>> ELSE <<>>)
    \o resultCSV(bb, i)
    \o (IF bb.length.Note > 0 THEN <<bb.Benchmarks[i].Note>> ELSE <<>>)

-----------------------------------------------------------------------------
(* The sink and the collaborators *)

\* One write: tag names the statement that issued it, text is the bytes
\* handed over, fields the cells the text was assembled from, bench the index
\* of the record it renders (0: none), checked whether the code looks at the
\* error of the write; hdr, align and rows are the table handed to csv2md.
Item(tag, text) ==
    [tag |-> tag, text |-> text, fields |-> <<>>, bench |-> 0, checked |-> FALSE,
     hdr |-> <<>>, align |-> <<>>, rows |-> <<>>]

\* fmt.Fprintln(b.w, s): one write of s and a line feed, its error discarded
Fprintln(tag, s) == Item(tag, s \o "\n")

\* b.w.Write(p): the error is returned to the caller
Write(tag, s) == [Item(tag, s) EXCEPT !.checked = TRUE]

\* func (b *Benches) SystemInfo(): the text starts with the processor count
SystemInfo == "Processors:  1\n"

\* func (b *Benches) DetailedSystemInfo(): the text starts with the first core
DetailedSystemInfo == "Processor:  0\n"

-----------------------------------------------------------------------------
(* StringBench *)

\* the cells of the header line, in column order
headerCells(bb) ==
    (IF bb.length.Group > 0 THEN <<columnL(bb, bb.length.Group, bb.header.Group)>> ELSE <<>>)
    \o (IF bb.length.SubGroup > 0
        THEN <<columnL(bb, bb.length.SubGroup, bb.header.SubGroup)>> ELSE <<>>)
    \o (IF bb.length.Name > 0 THEN <<columnL(bb, bb.length.Name, bb.header.Name)>> ELSE <<>>)
    \o (IF bb.length.Desc > 0 THEN <<columnL(bb, bb.length.Desc, bb.header.Desc)>> ELSE <<>>)
    \o <<columnL(bb, bb.length.Ops, bb.header.Ops),
         columnL(bb, bb.length.NsOp, bb.header.NsOp),
         columnL(bb, bb.length.BytesOp, bb.header.BytesOp),
         columnL(bb, bb.length.AllocsOp, bb.header.AllocsOp)>>
    \o (IF bb.length.Note > 0 THEN <<bb.header.Note>> ELSE <<>>)

\* func (b *StringBench) WriteHeader()
WriteHeader(bb) ==
    [Fprintln("header", Concat(headerCells(bb))) EXCEPT !.fields = headerCells(bb)]

\* func (b *StringBench) WriteSeparatorLine()
WriteSeparatorLine(bb) ==
    LET l == (IF bb.length.Group > 0 THEN bb.length.Group + bb.columnPadding ELSE 0)
             + (IF bb.length.SubGroup > 0 THEN bb.length.SubGroup + bb.columnPadding ELSE 0)
             + (IF bb.length.Name > 0 THEN bb.length.Name + bb.columnPadding ELSE 0)
             + (IF bb.length.Desc > 0 THEN bb.length.Desc + bb.columnPadding ELSE 0)
             + bb.length.Ops + bb.columnPadding
             + bb.length.NsOp + bb.columnPadding
             + bb.length.BytesOp + bb.columnPadding
             + bb.length.AllocsOp + bb.columnPadding
             + bb.length.Note
    IN Fprintln("separator", Repeat("-", l))

\* the four cells of BenchString, before fmt.Sprintf joins them
benchCells(bb, i) ==
    <<columnR(bb, bb.length.Ops, OpsString(bb, bb.Benchmarks[i])),
      columnR(bb, bb.length.NsOp, NsOpString(bb, bb.Benchmarks[i])),
      columnR(bb, bb.length.BytesOp, BytesOpString(bb, bb.Benchmarks[i])),
      columnR(bb, bb.length.AllocsOp, AllocsOpString(bb, bb.Benchmarks[i]))>>

\* func (b *StringBench) BenchString(i int) string
BenchString(bb, i) == Concat(benchCells(bb, i))

\* the cells of the line of record i, in column order
resultCells(bb, i) ==
    LET bench == bb.Benchmarks[i] IN
    (IF bb.length.Group > 0 THEN <<columnL(bb, bb.length.Group, bench.Group)>> ELSE <<>>)
    \o (IF bb.length.SubGroup > 0
        THEN <<columnL(bb, bb.length.SubGroup, bench.SubGroup)>> ELSE <<>>)
    \o (IF bb.length.Name > 0 THEN <<columnL(bb, bb.length.Name, bench.Name)>> ELSE <<>>)
    \o (IF bb.length.Desc > 0 THEN <<columnL(bb, bb.length.Desc, bench.Desc)>> ELSE <<>>)
    \o benchCells(bb, i)
    \o (IF bb.length.Note > 0 THEN <<bb.Note>> ELSE <<>>)

\* the loop of WriteResults from record i on, priorGroup being its cursor
RECURSIVE WriteResultsFrom(_, _, _)
WriteResultsFrom(bb, i, priorGroup) ==
    IF i > Len(bb.Benchmarks) THEN <<>>
    ELSE LET bench == bb.Benchmarks[i]
             nl == IF bb.sectionPerGroup /\ bench.Group # priorGroup THEN "\n" ELSE ""
             line == [Fprintln("result", nl \o Concat(resultCells(bb, i)))
                        EXCEPT !.fields = resultCells(bb, i), !.bench = i]
         IN <<line>> \o WriteResultsFrom(bb, i + 1, bench.Group)

\* WriteResults with its cursor starting at the zero value of a string
WriteResults_unseeded(bb) == WriteResultsFrom(bb, 1, "")

\* func (b *StringBench) WriteResults(); b.Benchmarks[0] needs a record
WriteResults(bb) == WriteResultsFrom(bb, 1, bb.Benchmarks[1].Group)

\* func (b *StringBench) Out() error: the writes it issues, how it ends and
\* the receiver it leaves.  sysErr: the system information probe fails.
StringBenchPlan(b0, sysErr) ==
    LET bb == setLength(b0)
        name == IF Len(bb.Name) > 0 THEN <<Fprintln("name", bb.Name)>> ELSE <<>>
        desc == IF Len(bb.Desc) > 0 THEN <<Fprintln("desc", bb.Name)>> ELSE <<>>
        note == IF Len(bb.Desc) > 0 THEN <<Fprintln("note", bb.Name)>> ELSE <<>>
        info == IF bb.includeDetailedSystemInfo THEN <<Fprintln("sysinfo", SystemInfo)>>
                ELSE IF bb.includeSystemInfo THEN <<Fprintln("sysinfo", SystemInfo)>>
                ELSE <<>>
        head == <<WriteHeader(bb), WriteSeparatorLine(bb)>>
    IN IF (bb.includeDetailedSystemInfo \/ bb.includeSystemInfo) /\ sysErr
       THEN [attempts |-> name \o desc, end |-> "CollaboratorFailure", bb |-> bb,
             sized |-> TRUE]
       ELSE IF Len(bb.Benchmarks) = 0
       THEN [attempts |-> name \o desc \o info \o head, end |-> "panic", bb |-> bb,
             sized |-> TRUE]
       ELSE [attempts |-> name \o desc \o info \o head \o WriteResults(bb) \o note,
             end |-> "nil", bb |-> bb, sized |-> TRUE]

-----------------------------------------------------------------------------
(* CSVBench *)

\* encoding/csv Writer.Write for fields that need no quoting: the fields
\* joined by commas and a line feed (no pool value holds a comma, a quote, a
\* line break or a leading blank)
RECURSIVE Join(_)
Join(fields) ==
    IF fields = <<>> THEN ""
    ELSE IF Len(fields) = 1 THEN Head(fields)
    ELSE Head(fields) \o "," \o Join(Tail(fields))

csvWrite(tag, fields, i) ==
    [Item(tag, Join(fields) \o "\n") EXCEPT !.fields = fields, !.bench = i]

\* encoding/csv Reader on one line without quotes: split at the commas
RECURSIVE ParseLine(_, _)
ParseLine(s, acc) ==
    IF s = "" \/ s = "\n" THEN <<acc>>
    ELSE IF SubSeq(s, 1, 1) = "," THEN <<acc>> \o ParseLine(SubSeq(s, 2, Len(s)), "")
    ELSE ParseLine(SubSeq(s, 2, Len(s)), acc \o SubSeq(s, 1, 1))

\* the header record of csvOut with the group column named unconditionally
csvHeader_withGroup(bb) ==
    <<"Group">>
    \o (IF bb.length.SubGroup > 0 THEN <<"SubGroup">> ELSE <<>>)
    \o (IF bb.length.Name > 0 THEN <<"Name">> ELSE <<>>)
    \o (IF bb.length.Desc > 0 THEN <<"Description">> ELSE <<>>)
    \o <<"Operations", "Ns/Op", "Bytes/Op", "Allocs/Op">>
    \o (IF bb.length.Note > 0 THEN <<"Note">> ELSE <<>>)

\* the header record of csvOut
csvHeader(bb) ==
    (IF bb.length.Group > 0 THEN <<"Group">> ELSE <<>>)
    \o (IF bb.length.SubGroup > 0 THEN <<"SubGroup">> ELSE <<>>)
    \o (IF bb.length.Name > 0 THEN <<"Name">> ELSE <<>>)
    \o (IF bb.length.Desc > 0 THEN <<"Description">> ELSE <<>>)
    \o <<"Operations", "Ns/Op", "Bytes/Op", "Allocs/Op">>
    \o (IF bb.length.Note > 0 THEN <<"Note">> ELSE <<>>)

\* make([]string, n)
blanks(n) == [j \in 1..n |-> ""]

\* the loop of csvOut from record i on, priorGroup being its cursor
RECURSIVE csvOutFrom(_, _, _, _, _)

\* the loop of csvOut without the header record of a new section
csvOutFrom_plainSections(bb, hdr, empty, i, priorGroup) ==
    IF i > Len(bb.Benchmarks) THEN <<>>
    ELSE LET v == bb.Benchmarks[i]
             section ==
                IF v.Group # priorGroup /\ bb.sectionPerGroup
                THEN <<csvWrite("empty", empty, 0)>>
                ELSE <<>>
         IN section \o <<csvWrite("record", csv(bb, i), i)>>
            \o csvOutFrom(bb, hdr, empty, i + 1, v.Group)

csvOutFrom(bb, hdr, empty, i, priorGroup) ==
    IF i > Len(bb.Benchmarks) THEN <<>>
    ELSE LET v == bb.Benchmarks[i]
             section ==
                IF v.Group # priorGroup /\ bb.sectionPerGroup
                THEN <<csvWrite("empty", empty, 0)>>
                     \o (IF bb.sectionHeaders THEN <<csvWrite("header", hdr, 0)>> ELSE <<>>)
                ELSE <<>>
         IN section \o <<csvWrite("record", csv(bb, i), i)>>
            \o csvOutFrom(bb, hdr, empty, i + 1, v.Group)

\* func csvOut(w *csv.Writer, benches Benches) error: the records handed to
\* the csv.Writer and how the call ends.  benches is a copy: the widths set
\* here are not the renderer's.  The csv.Writer buffers 4096 bytes, more than
\* any output of this model, so its Write never fails and the whole output
\* reaches the sink in the deferred Flush, whose error nothing reads.
csvOutPlan(b0) ==
    LET benches == setLength(b0)
        hdr == csvHeader(benches)
        empty == IF benches.sectionPerGroup THEN blanks(Len(hdr)) ELSE <<>>
    IN IF Len(benches.Benchmarks) = 0
       THEN [attempts |-> <<csvWrite("header", hdr, 0)>>, end |-> "panic", bb |-> benches,
             sized |-> TRUE]
       ELSE [attempts |-> <<csvWrite("header", hdr, 0)>>
                          \o csvOutFrom(benches, hdr, empty, 1, benches.Benchmarks[1].Group),
             end |-> "nil", bb |-> benches, sized |-> TRUE]

-----------------------------------------------------------------------------
(* MDBench *)

\* the header row MDBench.Out hands to the table transform
mdHeader(bb, gasn) ==
    (IF bb.length.Group > 0 /\ ~bb.sectionPerGroup /\ ~bb.sectionHeaders /\ ~gasn
     THEN <<bb.header.Group>> ELSE <<>>)
    \o (IF bb.length.SubGroup > 0 THEN <<bb.header.SubGroup>> ELSE <<>>)
    \o (IF bb.length.Name > 0 THEN <<bb.header.Name>> ELSE <<>>)
    \o (IF bb.length.Desc > 0 THEN <<bb.header.Desc>> ELSE <<>>)
    \o <<bb.header.Ops, bb.header.NsOp, bb.header.BytesOp, bb.header.AllocsOp>>
    \o (IF bb.length.Note > 0 THEN <<bb.header.Note>> ELSE <<>>)

\* the field alignments MDBench.Out hands to the table transform
mdAlign(bb, gasn) ==
    (IF bb.length.Group > 0 /\ ~bb.sectionPerGroup /\ ~bb.sectionHeaders /\ ~gasn
     THEN <<"l">> ELSE <<>>)
    \o (IF bb.length.SubGroup > 0 THEN <<"l">> ELSE <<>>)
    \o (IF bb.length.Name > 0 THEN <<"l">> ELSE <<>>)
    \o (IF bb.length.Desc > 0 THEN <<"l">> ELSE <<>>)
    \o <<"r", "r", "r", "r">>
    \o (IF bb.length.Note > 0 THEN <<"l">> ELSE <<>>)

\* t.MDTable(): csv2md turns the buffered CSV rows into one table on the sink
MDTable(bb, gasn, buff) ==
    [Write("table", "") EXCEPT !.hdr = mdHeader(bb, gasn), !.align = mdAlign(bb, gasn),
                               !.rows = buff]

\* func (b *MDBench) SectionName(s string) error
SectionName(bb, gasn, s) ==
    IF ~gasn \/ ~bb.sectionPerGroup \/ ~bb.sectionHeaders THEN <<>>
    ELSE <<Write("section", SectionHeaderHash \o s \o "  "), Write("newline", "\n")>>

\* the loop of MDBench.Out from record i on: priorGroup is its cursor, buff
\* the rows in the CSV buffer, empty the slice written at a boundary
RECURSIVE mdOutFrom(_, _, _, _, _, _)
mdOutFrom(bb, gasn, i, priorGroup, buff, empty) ==
    IF i > Len(bb.Benchmarks) THEN <<MDTable(bb, gasn, buff)>>
    ELSE LET v == bb.Benchmarks[i]
             boundary == priorGroup # v.Group /\ bb.sectionPerGroup
             empty1 == IF boundary /\ ~bb.sectionHeaders /\ gasn
                       THEN [empty EXCEPT ![1] = priorGroup] ELSE empty
             closed == IF boundary /\ ~bb.sectionHeaders
                       THEN buff \o <<[fields |-> empty1, bench |-> 0]>> ELSE buff
             line == IF bb.sectionPerGroup /\ bb.sectionHeaders /\ gasn
                     THEN Tail(csv(bb, i)) ELSE csv(bb, i)
             row == [fields |-> line, bench |-> i]
         IN IF boundary
            THEN <<MDTable(bb, gasn, closed), Write("blank", "\n")>>
                 \o SectionName(bb, gasn, v.Group)
                 \o mdOutFrom(bb, gasn, i + 1, v.Group, <<row>>, empty1)
            ELSE mdOutFrom(bb, gasn, i + 1, v.Group, buff \o <<row>>, empty1)

\* func (b *MDBench) Out() error: the writes it issues, how it ends and the
\* receiver it leaves.  sysErr: the system information probe fails.
MDBenchPlan(b0, gasn, sysErr) ==
    LET info == IF b0.includeDetailedSystemInfo THEN <<Fprintln("sysinfo", SystemInfo)>>
                ELSE IF b0.includeSystemInfo THEN <<Fprintln("sysinfo", SystemInfo)>>
                ELSE <<>>
        bb == setLength(b0)
        empty == blanks(Len(mdHeader(bb, gasn)))
    IN IF (b0.includeDetailedSystemInfo \/ b0.includeSystemInfo) /\ sysErr
       THEN [attempts |-> <<>>, end |-> "CollaboratorFailure", bb |-> b0, sized |-> FALSE]
       ELSE IF Len(bb.Benchmarks) = 0
       THEN [attempts |-> info, end |-> "panic", bb |-> bb, sized |-> TRUE]
       ELSE [attempts |-> info \o SectionName(bb, gasn, bb.Benchmarks[1].Group)
                          \o mdOutFrom(bb, gasn, 1, bb.Benchmarks[1].Group, <<>>, empty),
             end |-> "nil", bb |-> bb, sized |-> TRUE]

-----------------------------------------------------------------------------
(* The renderer as a state machine *)

Kinds == {"text", "csv", "md"}

\* header texts and paddings a caller sets
HeaderTexts == {"Operations"}
Paddings == {0}
Notes == {"set note"}
Titles == {"title"}

\* failAt: the sink accepts that many writes and rejects every later one
\* (-1: it accepts all)
FailPoints == {-1} \cup (0..MaxFail)

\* NewStringBench, NewCSVBench, NewMDBench
Init ==
    /\ kind \in Kinds
    /\ b = newBenches
    /\ GroupAsSectionName = FALSE
    /\ written = <<>>
    /\ attempted = 0
    /\ sinkRejected = FALSE
    /\ result = "none"
    /\ lengths = <<>>
    /\ outs = 0

\* a setter or an append: the renderer has not rendered yet
Configure(bb) ==
    /\ outs = 0
    /\ b' = bb
    /\ UNCHANGED <<kind, GroupAsSectionName, written, attempted, sinkRejected, result,
                   lengths, outs>>

\* Append putting the new records in front of the ones already there
Benches_Append_inFront(benches) ==
    /\ Len(b.Benchmarks) + Len(benches) <= MaxBenches
    /\ Configure([b EXCEPT !.Benchmarks = benches \o b.Benchmarks])

\* func (b *Benches) Append(benches ...Bench)
Benches_Append(benches) ==
    /\ Len(b.Benchmarks) + Len(benches) <= MaxBenches
    /\ Configure([b EXCEPT !.Benchmarks = b.Benchmarks \o benches])

IncludeOpsColumnDesc(v) == Configure([b EXCEPT !.includeOpsColumnDesc = v])

IncludeSystemInfo(v) == Configure([b EXCEPT !.includeSystemInfo = v])

IncludeDetailedSystemInfo(v) == Configure([b EXCEPT !.includeDetailedSystemInfo = v])

SectionPerGroup(v) == Configure([b EXCEPT !.sectionPerGroup = v])

SectionHeaders(v) == Configure([b EXCEPT !.sectionHeaders = v])

SetColumnPadding(i) == Configure([b EXCEPT !.columnPadding = i])

SetNameColumnHeader(s) == Configure([b EXCEPT !.header.Name = s])

SetOpsColumnHeader(s) == Configure([b EXCEPT !.header.Ops = s])

\* the caller assigns the exported fields Benches.Name and Benches.Note
SetName(s) == Configure([b EXCEPT !.Name = s])

SetNote(s) == Configure([b EXCEPT !.Note = s])

\* the caller assigns the exported field MDBench.GroupAsSectionName
SetGroupAsSectionName(v) ==
    /\ kind = "md"
    /\ outs = 0
    /\ GroupAsSectionName' = v
    /\ UNCHANGED <<kind, b, written, attempted, sinkRejected, result, lengths, outs>>

\* The writes of a plan reach a sink that fails from write failAt + 1 on: an
\* unchecked write that is rejected is lost and the render goes on, a checked
\* one ends the render with the error.
Deliver(p, failAt) ==
    LET n == Len(p.attempts)
        rejected == {i \in 1..n : failAt >= 0 /\ i > failAt}
        aborting == {i \in rejected : p.attempts[i].checked}
        stop == IF aborting = {} THEN n
                ELSE CHOOSE i \in aborting : \A j \in aborting : i <= j
    IN /\ written' = SubSeq(p.attempts, 1, IF failAt < 0 THEN n ELSE Min(failAt, n))
       /\ attempted' = stop
       /\ sinkRejected' = (rejected # {})
       /\ result' = IF aborting # {} THEN "SinkWriteFailure" ELSE p.end

\* The records of a plan sit in the csv.Writer's buffer until the deferred
\* Flush hands them to the sink in one write; the error of that write stays in
\* the csv.Writer and csvOut returns without reading it.
Flush(p, failAt) ==
    /\ written' = IF failAt = 0 THEN <<>> ELSE p.attempts
    /\ attempted' = 1
    /\ sinkRejected' = (failAt = 0)
    /\ result' = p.end

\* func (b *StringBench) Out() error
StringBenchOut(failAt, sysErr) ==
    /\ kind = "text"
    /\ outs < MaxOuts
    /\ LET p == StringBenchPlan(b, sysErr) IN
        /\ b' = p.bb
        /\ lengths' = Append(lengths, p.bb.length)
        /\ Deliver(p, failAt)
    /\ outs' = outs + 1
    /\ UNCHANGED <<kind, GroupAsSectionName>>

\* func (b *CSVBench) Out() error
CSVBenchOut(failAt) ==
    /\ kind = "csv"
    /\ outs < MaxOuts
    /\ LET p == csvOutPlan(b) IN
        /\ lengths' = Append(lengths, p.bb.length)
        /\ Flush(p, failAt)
    /\ outs' = outs + 1
    /\ UNCHANGED <<kind, b, GroupAsSectionName>>

\* func (b *MDBench) Out() error
MDBenchOut(failAt, sysErr) ==
    /\ kind = "md"
    /\ outs < MaxOuts
    /\ LET p == MDBenchPlan(b, GroupAsSectionName, sysErr) IN
        /\ b' = p.bb
        /\ lengths' = IF p.sized THEN Append(lengths, p.bb.length) ELSE lengths
        /\ Deliver(p, failAt)
    /\ outs' = outs + 1
    /\ UNCHANGED <<kind, GroupAsSectionName>>

\* Widths and cells: the renderers with their layout options, rendering to a
\* sink that accepts every write.
Next ==
    \/ \E benches \in AppendArgs : Benches_Append(benches)
    \/ \E v \in BOOLEAN : IncludeOpsColumnDesc(v)
    \/ \E i \in Paddings : SetColumnPadding(i)
    \/ \E s \in HeaderTexts : SetNameColumnHeader(s)
    \/ \E s \in HeaderTexts : SetOpsColumnHeader(s)
    \/ StringBenchOut(-1, FALSE)
    \/ CSVBenchOut(-1)
    \/ MDBenchOut(-1, FALSE)

Spec == Init /\ [][Next]_vars

\* Sections: the renderers with their grouping options, rendering to a sink
\* that accepts every write.
NextSections ==
    \/ \E benches \in AppendArgs : Benches_Append(benches)
    \/ \E v \in BOOLEAN : SectionPerGroup(v)
    \/ \E v \in BOOLEAN : SectionHeaders(v)
    \/ \E v \in BOOLEAN : SetGroupAsSectionName(v)
    \/ \E s \in Notes : SetNote(s)
    \/ StringBenchOut(-1, FALSE)
    \/ CSVBenchOut(-1)
    \/ MDBenchOut(-1, FALSE)

SpecSections == Init /\ [][NextSections]_vars

\* Failures: the renderers with their system information options, rendering
\* to a sink that may start to reject writes, with a probe that may fail.
NextIO ==
    \/ \E benches \in AppendArgs : Benches_Append(benches)
    \/ \E v \in BOOLEAN : IncludeSystemInfo(v)
    \/ \E v \in BOOLEAN : IncludeDetailedSystemInfo(v)
    \/ \E s \in Titles : SetName(s)
    \/ \E failAt \in FailPoints, sysErr \in BOOLEAN : StringBenchOut(failAt, sysErr)
    \/ \E failAt \in FailPoints : CSVBenchOut(failAt)
    \/ \E failAt \in FailPoints, sysErr \in BOOLEAN : MDBenchOut(failAt, sysErr)

SpecIO == Init /\ [][NextIO]_vars

-----------------------------------------------------------------------------
(* Reading the output back *)

\* the items of a sequence of writes that carry one of the tags
Tagged(items, tags) == LET keep(x) == x.tag \in tags IN SelectSeq(items, keep)

\* the records whose group differs from the group of the record before them
GroupChanges(benches) == {i \in 2..Len(benches) : benches[i].Group # benches[i - 1].Group}

\* a textual column is in the output when some record has a value for it
Participates(col) == \E i \in 1..Len(b.Benchmarks) : b.Benchmarks[i][col] # ""

\* number of textual columns in front of the four numeric ones
Lead == Cardinality({col \in {"Group", "SubGroup", "Name", "Desc"} : Participates(col)})

\* the text of a cell up to its first blank
RECURSIVE FirstWord(_)
FirstWord(s) ==
    IF s = "" \/ SubSeq(s, 1, 1) = " " THEN ""
    ELSE SubSeq(s, 1, 1) \o FirstWord(SubSeq(s, 2, Len(s)))

\* the cells of record i as a reader of the most recent output finds them:
\* the cells of its text line without their padding, the fields of its CSV
\* line, the fields of its row in a Markdown table
RenderedFields(i) ==
    IF kind = "text"
    THEN LET line == CHOOSE x \in {written[j] : j \in 1..Len(written)} :
                        x.tag = "result" /\ x.bench = i
         IN [c \in 1..Len(line.fields) |-> Trim(line.fields[c])]
    ELSE IF kind = "csv"
    THEN LET line == CHOOSE x \in {written[j] : j \in 1..Len(written)} :
                        x.tag = "record" /\ x.bench = i
         IN ParseLine(line.text, "")
    ELSE LET rows == UNION {{t.rows[r] : r \in 1..Len(t.rows)} :
                              t \in {written[j] : j \in 1..Len(written)}}
         IN (CHOOSE x \in rows : x.bench = i).fields

\* the c-th numeric cell (1: operations, 2: ns/op, 3: bytes/op, 4: allocs/op)
NumCell(i, c) == RenderedFields(i)[Lead + c]

\* the most recent Out() rendered every record
Completed == result = "nil"

-----------------------------------------------------------------------------
(* Claims *)

\* C1: Out() on a renderer with zero appended records ends in an EmptyInput
\* error and has written nothing to the sink.
C1_EmptyInputRejected ==
    (outs > 0 /\ Len(b.Benchmarks) = 0) => (result = "EmptyInput" /\ written = <<>>)

\* the boundary events the claim C2 expects: one per change of group when
\* sectionPerGroup is set, none otherwise
Boundaries == IF b.sectionPerGroup THEN GroupChanges(b.Benchmarks) ELSE {}

\* text: every record has its line, and the line opens with a blank line
\* exactly when the record is at a boundary
TextBoundaries ==
    LET lines == Tagged(written, {"result"}) IN
    /\ Len(lines) = Len(b.Benchmarks)
    /\ \A i \in 1..Len(lines) :
          /\ lines[i].bench = i
          /\ (SubSeq(lines[i].text, 1, 1) = "\n") <=> (i \in Boundaries)

\* CSV: an all-blank record stands in front of a record (its re-emitted header
\* aside) exactly when the record is at a boundary
CSVBoundaries ==
    LET body == Tagged(Tail(written), {"empty", "record"}) IN
    /\ Len(Tagged(body, {"record"})) = Len(b.Benchmarks)
    /\ Len(Tagged(body, {"empty"})) = Cardinality(Boundaries)
    /\ \A j \in 1..Len(body) :
          /\ body[j].tag = "empty" =>
                j < Len(body) /\ body[j + 1].tag = "record" /\ body[j + 1].bench \in Boundaries
          /\ (body[j].tag = "record" /\ body[j].bench \in Boundaries) =>
                j > 1 /\ body[j - 1].tag = "empty"

\* Markdown: a table is closed and a blank line written exactly in front of
\* the table that opens with a record at a boundary
MDBoundaries ==
    LET parts == Tagged(written, {"table", "blank"}) IN
    /\ Len(Tagged(parts, {"blank"})) = Cardinality(Boundaries)
    /\ Len(Tagged(parts, {"table"})) = Cardinality(Boundaries) + 1
    /\ \A j \in 1..Len(parts) :
          parts[j].tag = "blank" =>
             /\ j < Len(parts)
             /\ parts[j + 1].tag = "table"
             /\ parts[j + 1].rows # <<>>
             /\ parts[j + 1].rows[1].bench \in Boundaries

C3_OperationsValue ==
    Completed =>
        \A i \in 1..Len(b.Benchmarks) :
            LET v == b.Benchmarks[i] IN
            /\ FirstWord(NumCell(i, 1)) = Itoa(v.Ops * v.Iterations)
            /\ (v.Ops = 1000 /\ v.Iterations = 4) => FirstWord(NumCell(i, 1)) = "4000"
            /\ lengths[Len(lengths)].Ops >= Len(Itoa(v.Ops * v.Iterations))

\* a record of 1000 operations and 4 iterations was rendered
C3_Witness ==
    /\ Completed
    /\ \E i \in 1..Len(b.Benchmarks) :
          /\ b.Benchmarks[i].Ops = 1000
          /\ b.Benchmarks[i].Iterations = 4
          /\ NumCell(i, 1) = "4000"

\* the unit text a numeric cell carries when includeOpsColumnDesc is set
Suffix(c) ==
    IF ~b.includeOpsColumnDesc THEN ""
    ELSE IF c = 2 THEN " ns/op" ELSE IF c = 3 THEN " bytes/op" ELSE " allocs/op"

\* the stored value behind the c-th numeric cell
PerOpValue(v, c) == IF c = 2 THEN v.NsOp ELSE IF c = 3 THEN v.BytesOp ELSE v.AllocsOp

\* C4: for a record with Iterations >= 1, each per-operation cell (ns/op,
\* bytes/op, allocs/op) shows "0" when the stored value is 0 and the integer
\* quotient value / Iterations otherwise, followed by its unit suffix when
\* includeOpsColumnDesc is set.
C4_PerOpCells ==
    Completed =>
        \A i \in 1..Len(b.Benchmarks) : \A c \in 2..4 :
            LET v == b.Benchmarks[i]
                x == PerOpValue(v, c)
            IN v.Iterations >= 1 =>
                /\ x = 0 => NumCell(i, c) = "0" \o Suffix(c)
                /\ x > 0 => NumCell(i, c) = Itoa(x \div v.Iterations) \o Suffix(c)

\* 500 ns over 4 iterations shows "125 ns/op" next to a zero bytes/op cell
C4_Witness ==
    /\ Completed
    /\ b.includeOpsColumnDesc
    /\ \E i \in 1..Len(b.Benchmarks) :
          /\ b.Benchmarks[i].Iterations = 4
          /\ b.Benchmarks[i].BytesOp = 0
          /\ NumCell(i, 2) = "125 ns/op"
          /\ NumCell(i, 3) = "0 bytes/op"

\* the length of a text line up to the note column
TableWidth(line) ==
    LET n == IF Participates("Note") THEN Len(line.fields) - 1 ELSE Len(line.fields)
    IN Len(Concat(SubSeq(line.fields, 1, n)))

\* C5: in the text renderer's output the header line and every record line
\* have the same length up to the note column, whatever the configuration.
C5_LinesEqualLength ==
    (Completed /\ kind = "text") =>
        \A j \in 1..Len(written) :
            written[j].tag = "result" =>
                TableWidth(written[j]) = TableWidth(Tagged(written, {"header"})[1])

\* C6: every Out() on the same renderer, records and configuration renders
\* with the same width for every column.
C6_WidthsRepeat == \A i \in 1..Len(lengths) : \A j \in 1..Len(lengths) : lengths[i] = lengths[j]

\* a decimal integer: digits, after an optional sign
RECURSIVE IsDigits(_)
IsDigits(s) ==
    s = "" \/ (SubSeq(s, 1, 1) \in {DigitChars[d] : d \in 1..10} /\ IsDigits(SubSeq(s, 2, Len(s))))

IsDecimal(s) ==
    /\ s # ""
    /\ IF SubSeq(s, 1, 1) = "-" THEN Len(s) > 1 /\ IsDigits(SubSeq(s, 2, Len(s)))
       ELSE IsDigits(s)

\* C7: the four numeric fields of every CSV data record are bare decimal
\* integers, also when includeOpsColumnDesc is set.
C7_CSVBareNumbers ==
    (Completed /\ kind = "csv") =>
        \A i \in 1..Len(b.Benchmarks) : \A c \in 1..4 : IsDecimal(NumCell(i, c))

\* the CSV output read back, one record per line
Parsed == [j \in 1..Len(written) |-> ParseLine(written[j].text, "")]

IsBlank(r) == \A f \in 1..Len(r) : r[f] = ""

\* The CSV output read back holds 1 + extra header records, one data record
\* per appended record in insertion order and one all-blank record per
\* boundary, all with as many fields as the header record.
CSVShape(extra) ==
    LET hdr == Parsed[1]
        heads == {j \in 1..Len(Parsed) : Parsed[j] = hdr}
        blank == {j \in 1..Len(Parsed) : IsBlank(Parsed[j])}
        data == (1..Len(Parsed)) \ (heads \cup blank)
    IN /\ Cardinality(heads) = 1 + extra
       /\ Cardinality(data) = Len(b.Benchmarks)
       /\ \A j \in data :
            /\ written[j].bench = Cardinality({d \in data : d <= j})
            /\ Parsed[j] = written[j].fields
            /\ FirstWord(Parsed[j][Lead + 1]) =
                  Itoa(b.Benchmarks[written[j].bench].Ops * b.Benchmarks[written[j].bench].Iterations)
       /\ Cardinality(blank) = Cardinality(Boundaries)
       /\ \A j \in 1..Len(Parsed) : Len(Parsed[j]) = Len(hdr)
       /\ Len(Parsed) = 1 + extra + Len(b.Benchmarks) + Cardinality(Boundaries)

\* C8 as stated: the CSV output read back is one header record, the n data
\* records in insertion order and one all-blank record per group boundary
\* when sectionPerGroup is set, every record with as many fields as the header.
C8_OneHeaderRecord == (Completed /\ kind = "csv") => CSVShape(0)

\* C8 as amended: the CSV output read back is the header record, the n data
\* records in insertion order and, when sectionPerGroup is set, one all-blank
\* record per group boundary, followed by a repeated header record when
\* sectionHeaders is set as well; every record has as many fields as the header.
C8_CSVRoundTrip ==
    (Completed /\ kind = "csv") =>
        /\ CSVShape(IF b.sectionHeaders THEN Cardinality(Boundaries) ELSE 0)
        /\ \A j \in 2..Len(Parsed) :
              Parsed[j] = Parsed[1] => (b.sectionHeaders /\ IsBlank(Parsed[j - 1]))

\* three records g1, g2, g1 with both section options: eight CSV records
C8_Witness ==
    /\ Completed
    /\ kind = "csv"
    /\ b.sectionPerGroup
    /\ b.sectionHeaders
    /\ Cardinality(GroupChanges(b.Benchmarks)) = 2
    /\ Len(Parsed) = 8
    /\ IsBlank(Parsed[3])
    /\ Parsed[4] = Parsed[1]

\* C9: when the sink rejects a write during a render, Out() writes no more
\* and returns that error.
C9_SinkFailureReturned ==
    sinkRejected => (result = "SinkWriteFailure" /\ attempted = Len(written) + 1)

\* C10: the text and Markdown renderers prepend the detailed system
\* information, once and before the table, when includeDetailedSystemInfo is
\* set, and the basic system information when only includeSystemInfo is set.
C10_DetailedSystemInfo ==
    (Completed /\ ~sinkRejected /\ kind \in {"text", "md"}) =>
        LET infos == Tagged(written, {"sysinfo"})
            first == Tagged(written, {"sysinfo", "header", "table"})
        IN IF b.includeDetailedSystemInfo
           THEN /\ Len(infos) = 1
                /\ infos[1].text = DetailedSystemInfo \o "\n"
                /\ first[1].tag = "sysinfo"
           ELSE IF b.includeSystemInfo
           THEN /\ Len(infos) = 1
                /\ infos[1].text = SystemInfo \o "\n"
                /\ first[1].tag = "sysinfo"
           ELSE infos = <<>>

\* the textual and the numeric columns
TextCols == {"Group", "SubGroup", "Name", "Desc", "Note"}
NumCols == {"Ops", "NsOp", "BytesOp", "AllocsOp"}

\* the header names csvOut writes
CSVNames ==
    [Group |-> "Group", SubGroup |-> "SubGroup", Name |-> "Name", Desc |-> "Description",
     Ops |-> "Operations", NsOp |-> "Ns/Op", BytesOp |-> "Bytes/Op", AllocsOp |-> "Allocs/Op",
     Note |-> "Note"]

\* the header text of a column in the output of this renderer
Label(col) == IF kind = "csv" THEN CSVNames[col] ELSE b.header[col]

\* the header rows of the most recent output, as sequences of cells
OutHeaders ==
    IF kind = "text"
    THEN {[c \in 1..Len(x.fields) |-> Trim(x.fields[c])] :
              x \in {written[j] : j \in {k \in 1..Len(written) : written[k].tag = "header"}}}
    ELSE IF kind = "csv"
    THEN {ParseLine(x.text, "") :
              x \in {written[j] : j \in {k \in 1..Len(written) : written[k].tag = "header"}}}
    ELSE {x.hdr : x \in {written[j] : j \in {k \in 1..Len(written) : written[k].tag = "table"}}}

\* the data rows of the most recent output, each with the record it renders
OutRows ==
    IF kind = "text"
    THEN {[fields |-> [c \in 1..Len(x.fields) |-> Trim(x.fields[c])], bench |-> x.bench] :
              x \in {written[j] : j \in {k \in 1..Len(written) : written[k].tag = "result"}}}
    ELSE IF kind = "csv"
    THEN {[fields |-> ParseLine(x.text, ""), bench |-> x.bench] :
              x \in {written[j] : j \in {k \in 1..Len(written) : written[k].tag = "record"}}}
    ELSE {r \in UNION {{t.rows[n] : n \in 1..Len(t.rows)} :
                          t \in {written[j] : j \in 1..Len(written)}} : r.bench # 0}

\* the text of the c-th numeric cell of record v
ExpectedCell(v, c) ==
    IF c = 1
    THEN Itoa(v.Ops * v.Iterations) \o (IF b.includeOpsColumnDesc THEN " ops" ELSE "")
    ELSE (IF PerOpValue(v, c) = 0 THEN "0" ELSE Itoa(PerOpValue(v, c) \div v.Iterations))
         \o Suffix(c)

\* the row holds the four numeric cells of its record, side by side
HasNumericCells(r) ==
    \E p \in 1..(Len(r.fields) - 3) :
        \A c \in 1..4 : r.fields[p + c - 1] = ExpectedCell(b.Benchmarks[r.bench], c)

\* the row holds no cell for a textual column without values
NoExcludedCell(r) ==
    Len(r.fields) - 4 <= Cardinality({col \in TextCols : Participates(col)})

\* C11: a textual column (group, subgroup, name, description, note) for which
\* every record is empty has no header cell and no data cell in the output of
\* any renderer, and the four numeric columns are in every output.
C11_ColumnExclusion ==
    Completed =>
        /\ \A h \in OutHeaders :
              /\ \A col \in TextCols :
                    ~Participates(col) => \A c \in 1..Len(h) : h[c] # Label(col)
              /\ \A col \in NumCols : \E c \in 1..Len(h) : h[c] = Label(col)
        /\ \A r \in OutRows : HasNumericCells(r) /\ NoExcludedCell(r)

\* C12: whenever the record set changes, the records already there stay as
\* they were, in place, and the records passed to that Append follow them in
\* argument order, none left out for being a duplicate: the length grows by
\* the number of arguments.  Out() leaves the record set alone.
C12_AppendConcatenates ==
    [][b'.Benchmarks # b.Benchmarks =>
          /\ outs' = outs
          /\ Len(b'.Benchmarks) > Len(b.Benchmarks)
          /\ SubSeq(b'.Benchmarks, 1, Len(b.Benchmarks)) = b.Benchmarks
          /\ SubSeq(b'.Benchmarks, Len(b.Benchmarks) + 1, Len(b'.Benchmarks)) \in AppendArgs]_vars

\* one record, then two records equal to it: three records are kept
C12_Witness ==
    /\ Len(b.Benchmarks) = 3
    /\ b.Benchmarks[1] = b.Benchmarks[2]
    /\ b.Benchmarks[2] = b.Benchmarks[3]

\* C13 as stated: with sectionPerGroup and sectionHeaders set, the text
\* renderer writes the header line again at every group boundary, before the
\* first record line of the new group.
C13_TextRepeatsHeader ==
    (Completed /\ kind = "text" /\ b.sectionPerGroup /\ b.sectionHeaders) =>
        \A j \in 1..Len(written) :
            (written[j].tag = "result" /\ written[j].bench \in Boundaries) =>
                j > 1 /\ written[j - 1].tag = "header"

\* C13 as amended: with sectionPerGroup and sectionHeaders set, the CSV
\* renderer writes its header record again at every group boundary, after the
\* blank record and before the first record of the new group; the text
\* renderer ignores sectionHeaders: it writes its header line once and at a
\* group boundary only a blank line, right after the previous record line.
C13_SectionHeaders ==
    (Completed /\ b.sectionPerGroup /\ b.sectionHeaders) =>
        /\ kind = "csv" =>
              \A j \in 1..Len(written) :
                  (written[j].tag = "record" /\ written[j].bench \in Boundaries) =>
                      /\ j > 3
                      /\ ParseLine(written[j - 1].text, "") = ParseLine(written[1].text, "")
                      /\ IsBlank(ParseLine(written[j - 2].text, ""))
        /\ kind = "text" =>
              /\ Len(Tagged(written, {"header"})) = 1
              /\ \A j \in 1..Len(written) :
                    (written[j].tag = "result" /\ written[j].bench \in Boundaries) =>
                        /\ j > 1
                        /\ written[j - 1].tag = "result"
                        /\ SubSeq(written[j].text, 1, 1) = "\n"

\* a text render of two groups with both section options set
C13_Witness ==
    /\ Completed
    /\ kind = "text"
    /\ b.sectionPerGroup
    /\ b.sectionHeaders
    /\ Boundaries # {}
    /\ \E j \in 1..Len(written) : SubSeq(written[j].text, 1, 1) = "\n"

\* C14: in the Markdown renderer with sectionPerGroup set and sectionHeaders
\* not set, the table transform runs once, at the end of the render: the
\* output is a single table.
C14_SingleTable ==
    (Completed /\ kind = "md" /\ b.sectionPerGroup /\ ~b.sectionHeaders) =>
        /\ Len(Tagged(written, {"table"})) = 1
        /\ written[Len(written)].tag = "table"

\* C15: when the note column is in the text output, the line of every record
\* ends with the note of that record.
C15_OwnNote ==
    (Completed /\ kind = "text" /\ Participates("Note")) =>
        \A j \in 1..Len(written) :
            written[j].tag = "result" =>
                written[j].fields[Len(written[j].fields)] = b.Benchmarks[written[j].bench].Note

\* the fields of the data row of record i without a field for its group
WithoutGroup(i) ==
    LET v == b.Benchmarks[i] IN
    (IF Participates("SubGroup") THEN <<v.SubGroup>> ELSE <<>>)
    \o (IF Participates("Name") THEN <<v.Name>> ELSE <<>>)
    \o (IF Participates("Desc") THEN <<v.Desc>> ELSE <<>>)
    \o [c \in 1..4 |-> ExpectedCell(v, c)]
    \o (IF Participates("Note") THEN <<v.Note>> ELSE <<>>)

\* C16: every row of the CSV handed to the table transform, data row or blank
\* row, has as many fields as the header and the alignment list, and the one
\* field a data row loses when the group is the section name is its group.
C16_RowsMatchHeader ==
    (Completed /\ kind = "md") =>
        \A j \in 1..Len(written) :
            written[j].tag = "table" =>
                /\ Len(written[j].hdr) = Len(written[j].align)
                /\ \A n \in 1..Len(written[j].rows) :
                      LET r == written[j].rows[n] IN
                      /\ Len(r.fields) = Len(written[j].hdr)
                      /\ (r.bench # 0 /\ b.sectionPerGroup /\ b.sectionHeaders
                            /\ GroupAsSectionName) => r.fields = WithoutGroup(r.bench)

====
